---- MODULE Spec2Model ----
(***************************************************************************)
(* Model of smiles_to_vla_smiles.py: the SMILES -> binary -> VLA-SMILES    *)
(* pipeline of process_smiles_file and the functions it calls.             *)
(*                                                                         *)
(* Representation                                                          *)
(*   - a raw string is a sequence of code points (naturals);               *)
(*   - a Python str of '0'/'1' is a sequence of the strings "0" and "1";   *)
(*   - a Python int (arbitrary precision) is a sequence of digits, least   *)
(*     significant first; the values the program builds exceed the range   *)
(*     of TLC's integers;                                                  *)
(*   - a cell of the numpy array is a float64 holding an integral value;   *)
(*     it is represented by that value, as a Python int.                   *)
(***************************************************************************)
EXTENDS Integers, Sequences, FiniteSets, TLC

VARIABLES
    input_file,        \* the file named on the command line: whether it exists, its lines
    pc,                \* position in process_smiles_file
    smiles_list,       \* line 73
    max_smiles_length, \* line 75
    binary_sequences,  \* line 76
    binary_file,       \* binary_output.dat: whether it was written, its lines
    sequence_length,   \* line 83
    divisors,          \* line 84
    next_k,            \* index in divisors of the next iteration of the loop at line 86
    vla_files,         \* k -> contents of vla_output_<k>.dat, for the files written
    error              \* the exception that left process_smiles_file, or "none"

vars == <<input_file, pc, smiles_list, max_smiles_length, binary_sequences,
          binary_file, sequence_length, divisors, next_k, vla_files, error>>

(***************************************************************************)
(* Bounds of the model and program constants.                              *)
(***************************************************************************)
MaxLen == 2       \* longest raw string over Alphabet
MaxRun == 7       \* length of the long raw strings (one character repeated)
MaxBatch == 2     \* most lines in the input file
MaxN == 64        \* largest argument of find_divisors in SpecDivisors

BitsPerChar == 8      \* the width of the format '08b' and the factor at line 75
MantissaBits == 53    \* significand of the float64 cells np.zeros creates

Alphabet == {65, 66}      \* 'A' and 'B'
WideChars == {256}        \* U+0100, whose binary numeral has 9 digits
RunChars == {65, 255}     \* 'A' and U+00FF, whose 8 bits are all 1

NoFile == [exists |-> FALSE, lines |-> <<>>]

\* the lines the input file is made of: every string over Alphabet up to
\* MaxLen characters, a single wide character, and a run of MaxRun characters
ShortStrings == UNION {[1..n -> Alphabet] : n \in 0..MaxLen}
WideStrings == {<<c>> : c \in WideChars}
LongStrings == {[i \in 1..MaxRun |-> c] : c \in RunChars}
RawStrings == ShortStrings \cup WideStrings \cup LongStrings
Batches == UNION {[1..n -> RawStrings] : n \in 0..MaxBatch}

(***************************************************************************)
(* Python's str and int.                                                   *)
(***************************************************************************)
\* ch * n for a one-character string ch: empty when n <= 0
StrRepeat(ch, n) == [i \in 1..n |-> ch]

\* ''.join(parts)
RECURSIVE StrJoin(_)
StrJoin(parts) ==
    IF parts = <<>> THEN <<>> ELSE Head(parts) \o StrJoin(Tail(parts))

\* the digits of format(n, 'b'): no leading zeros, "0" for zero
RECURSIVE BinDigits(_)
BinDigits(n) ==
    IF n < 2 THEN <<IF n = 1 THEN "1" ELSE "0">>
    ELSE BinDigits(n \div 2) \o <<IF n % 2 = 1 THEN "1" ELSE "0">>

\* f'{n:08b}': the digits, zero-filled on the left to a width of at least 8
Format08b(n) ==
    LET d == BinDigits(n)
    IN  StrRepeat("0", BitsPerChar - Len(d)) \o d

\* int(ch) for a one-character string ch that is "0" or "1"
IntOfChar(ch) == IF ch = "1" THEN 1 ELSE 0

(***************************************************************************)
(* Python's int: arbitrary precision.  As in CPython, a value is a         *)
(* sequence of digits in base 2^DigitBits, least significant first, whose  *)
(* last digit is not 0; zero is the empty sequence.                        *)
(***************************************************************************)
DigitBits == 15
DigitBase == 2^DigitBits

Zero == <<>>

\* a + b, c the carry into the least significant digit
RECURSIVE AddCarry(_, _, _)
AddCarry(a, b, c) ==
    IF b = <<>> /\ c = 0 THEN a
    ELSE IF a = <<>> /\ c = 0 THEN b
    ELSE IF a = <<>> /\ b = <<>> THEN <<c>>
    ELSE LET x == IF a = <<>> THEN 0 ELSE Head(a)
             y == IF b = <<>> THEN 0 ELSE Head(b)
             s == x + y + c
             ra == IF a = <<>> THEN <<>> ELSE Tail(a)
             rb == IF b = <<>> THEN <<>> ELSE Tail(b)
         IN  <<s % DigitBase>> \o AddCarry(ra, rb, s \div DigitBase)

IntAdd(a, b) == AddCarry(a, b, 0)

\* 2 ** e
IntPow2(e) ==
    [i \in 1..(e \div DigitBits) + 1 |->
        IF i = (e \div DigitBits) + 1 THEN 2^(e % DigitBits) ELSE 0]

\* bit * p for a small natural bit (0, 1, or the mark 2 of line 57)
RECURSIVE IntTimes(_, _)
IntTimes(bit, p) == IF bit = 0 THEN Zero ELSE IntAdd(IntTimes(bit - 1, p), p)

\* terms[lo] + ... + terms[hi]; integer addition is exact and associative, so
\* the halves are added separately, which keeps TLC's evaluation shallow
RECURSIVE SumRange(_, _, _)
SumRange(terms, lo, hi) ==
    IF lo > hi THEN Zero
    ELSE IF lo = hi THEN IntAdd(Zero, terms[lo])
    ELSE LET mid == (lo + hi) \div 2
         IN  IntAdd(SumRange(terms, lo, mid), SumRange(terms, mid + 1, hi))

\* sum(terms): 0 plus every term
IntSum(terms) == SumRange(terms, 1, Len(terms))

\* a sequence of 0/1 without its leading zeros
RECURSIVE StripZeros(_)
StripZeros(b) == IF b # <<>> /\ b[1] = 0 THEN StripZeros(Tail(b)) ELSE b

\* the digits of n as 0/1, most significant first, DigitBits for each digit
RECURSIVE DigitsToBits(_)
DigitsToBits(n) ==
    IF n = <<>> THEN <<>>
    ELSE DigitsToBits(Tail(n))
             \o [i \in 1..DigitBits |-> (Head(n) \div 2^(DigitBits - i)) % 2]

\* the binary numeral of n as a sequence of 0/1, most significant bit first,
\* no leading zeros (empty for zero)
IntBits(n) == StripZeros(DigitsToBits(n))

\* the value below DigitBase of at most DigitBits bits, most significant first
DigitOfBits(b) ==
    LET V[i \in 0..Len(b)] == IF i = 0 THEN 0 ELSE 2 * V[i - 1] + b[i]
    IN  V[Len(b)]

\* the int whose binary numeral is b (leading zeros allowed)
RECURSIVE IntFromBits(_)
IntFromBits(b) ==
    LET s == StripZeros(b)
    IN  IF s = <<>> THEN Zero
        ELSE IF Len(s) <= DigitBits THEN <<DigitOfBits(s)>>
        ELSE <<DigitOfBits(SubSeq(s, Len(s) - DigitBits + 1, Len(s)))>>
                 \o IntFromBits(SubSeq(s, 1, Len(s) - DigitBits))

\* float(n) for an int n, as the integer the float64 holds: the nearest value
\* with a significand of MantissaBits bits, ties to the even significand
\* (an int of 1025 bits or more raises OverflowError instead: no raw string
\* of the model is that long)
ToFloat64(n) ==
    LET b == IntBits(n)
    IN  IF Len(b) <= MantissaBits THEN n
        ELSE LET rest == SubSeq(b, MantissaBits + 1, Len(b))
                 sticky == \E i \in 2..Len(rest) : rest[i] = 1
                 up == rest[1] = 1 /\ (sticky \/ b[MantissaBits] = 1)
                 down == IntFromBits([i \in 1..Len(b) |->
                                         IF i <= MantissaBits THEN b[i] ELSE 0])
             IN  IF up THEN IntAdd(down, IntPow2(Len(rest))) ELSE down

\* max(xs) for a non-empty sequence of naturals
PyMax(xs) ==
    LET M[i \in 0..Len(xs)] ==
            IF i = 0 THEN 0 ELSE IF xs[i] > M[i - 1] THEN xs[i] ELSE M[i - 1]
    IN  M[Len(xs)]

\* as max(xs, default=0): nothing is raised for an empty sequence
MaxRaisesNever(xs) == FALSE

\* max() of an empty sequence raises ValueError
MaxRaises(xs) == xs = <<>>

(***************************************************************************)
(* The functions of the module.                                            *)
(***************************************************************************)
\* as smiles_to_binary without the padding of line 36
smiles_to_binary_nopad(smiles, max_length) ==
    StrJoin([i \in 1..Len(smiles) |-> Format08b(smiles[i])])

smiles_to_binary(smiles, max_length) ==
    LET binary_sequence == StrJoin([i \in 1..Len(smiles) |-> Format08b(smiles[i])])
        padding_length == max_length - Len(binary_sequence)
    IN  binary_sequence \o StrRepeat("0", padding_length)

\* as find_divisors with range(1, n) at line 44
find_divisors_exclusive(n) ==
    LET D[i \in 0..n] ==
            IF i = 0 THEN <<>>
            ELSE IF n % i = 0 /\ i < n THEN Append(D[i - 1], i) ELSE D[i - 1]
    IN  IF n <= 0 THEN <<>> ELSE D[n]

find_divisors(n) ==
    LET D[i \in 0..n] ==
            IF i = 0 THEN <<>>
            ELSE IF n % i = 0 THEN Append(D[i - 1], i) ELSE D[i - 1]
    IN  IF n <= 0 THEN <<>> ELSE D[n]

\* line 56: the characters of group i (counted from 0) of row s, as ints
GroupBits(s, i, k) == [idx \in 1..k |-> IntOfChar(s[i * k + idx])]

\* line 57
MarkNegative(bits) == [idx \in 1..Len(bits) |-> IF bits[idx] >= 0 THEN bits[idx] ELSE 2]

\* line 61
ClearMarks(bits) == [idx \in 1..Len(bits) |-> IF bits[idx] = 2 THEN 0 ELSE bits[idx]]

\* lines 58 and 62: sum(bit * 2 ** (k - idx - 1) for idx, bit in enumerate(bits))
WeightedSum(bits, k) ==
    IntSum([idx \in 1..Len(bits) |-> IntTimes(bits[idx], IntPow2(k - idx))])

\* lines 59-64 for the bits of line 57: the cell keeps the 0.0 of np.zeros when
\* the group sums to zero, and takes float(r20) otherwise
CellValue(bits, k) ==
    IF WeightedSum(bits, k) = Zero THEN Zero
    ELSE ToFloat64(WeightedSum(ClearMarks(bits), k))

\* lines 56-64 for row s and group i (counted from 0)
Cell(s, i, k) == CellValue(MarkNegative(GroupBits(s, i, k)), k)

\* transform_to_vla: the exception it raises, or "none" and the array it returns
transform_to_vla(smiles, k) ==
    IF smiles = <<>> THEN [raised |-> "IndexError", value |-> <<>>]
    ELSE
    LET num_samples == Len(smiles)
        seq_len == Len(smiles[1])
        cols == seq_len \div k
    IN  IF \E i1 \in 1..num_samples : Len(smiles[i1]) < cols * k
        THEN [raised |-> "IndexError", value |-> <<>>]
        ELSE [raised |-> "none",
              value |-> [i1 \in 1..num_samples |->
                            [i \in 1..cols |-> Cell(smiles[i1], i - 1, k)]]]

(***************************************************************************)
(* process_smiles_file, one action per step.                               *)
(***************************************************************************)
Init ==
    /\ input_file \in {NoFile} \cup {[exists |-> TRUE, lines |-> b] : b \in Batches}
    /\ pc = "open"
    /\ smiles_list = <<>>
    /\ max_smiles_length = 0
    /\ binary_sequences = <<>>
    /\ binary_file = [exists |-> FALSE, lines |-> <<>>]
    /\ sequence_length = 0
    /\ divisors = <<>>
    /\ next_k = 1
    /\ vla_files = [k \in {} |-> <<>>]
    /\ error = "none"

\* lines 72-73; a missing file is caught at lines 91-93
ReadFile ==
    /\ pc = "open"
    /\ IF input_file.exists
       THEN /\ smiles_list' = input_file.lines
            /\ pc' = "encode"
       ELSE /\ pc' = "returned"
            /\ UNCHANGED smiles_list
    /\ UNCHANGED <<input_file, max_smiles_length, binary_sequences, binary_file,
                   sequence_length, divisors, next_k, vla_files, error>>

\* lines 75-76; no handler catches the ValueError of max()
Encode ==
    /\ pc = "encode"
    /\ LET lens == [i \in 1..Len(smiles_list) |-> Len(smiles_list[i])]
       IN  IF MaxRaises(lens)
           THEN /\ error' = "ValueError"
                /\ pc' = "raised"
                /\ UNCHANGED <<max_smiles_length, binary_sequences>>
           ELSE /\ max_smiles_length' = PyMax(lens) * BitsPerChar
                /\ binary_sequences' =
                       [i \in 1..Len(smiles_list) |->
                           smiles_to_binary(smiles_list[i], max_smiles_length')]
                /\ pc' = "write_binary"
                /\ UNCHANGED error
    /\ UNCHANGED <<input_file, smiles_list, binary_file, sequence_length,
                   divisors, next_k, vla_files>>

\* lines 78-81
WriteBinary ==
    /\ pc = "write_binary"
    /\ binary_file' = [exists |-> TRUE, lines |-> binary_sequences]
    /\ pc' = "find_divisors"
    /\ UNCHANGED <<input_file, smiles_list, max_smiles_length, binary_sequences,
                   sequence_length, divisors, next_k, vla_files, error>>

\* lines 83-84
FindDivisors ==
    /\ pc = "find_divisors"
    /\ IF binary_sequences = <<>>
       THEN /\ error' = "IndexError"
            /\ pc' = "raised"
            /\ UNCHANGED <<sequence_length, divisors, next_k>>
       ELSE /\ sequence_length' = Len(binary_sequences[1])
            /\ divisors' = find_divisors(sequence_length')
            /\ next_k' = 1
            /\ pc' = "loop"
            /\ UNCHANGED error
    /\ UNCHANGED <<input_file, smiles_list, max_smiles_length, binary_sequences,
                   binary_file, vla_files>>

\* lines 86-89, one iteration
TransformStep ==
    /\ pc = "loop"
    /\ next_k <= Len(divisors)
    /\ LET k == divisors[next_k]
           r == transform_to_vla(binary_sequences, k)
       IN  IF r.raised # "none"
           THEN /\ error' = r.raised
                /\ pc' = "raised"
                /\ UNCHANGED <<next_k, vla_files>>
           ELSE /\ vla_files' = (k :> r.value) @@ vla_files
                /\ next_k' = next_k + 1
                /\ UNCHANGED <<pc, error>>
    /\ UNCHANGED <<input_file, smiles_list, max_smiles_length, binary_sequences,
                   binary_file, sequence_length, divisors>>

\* the loop at line 86 is exhausted and the function returns
LoopExit ==
    /\ pc = "loop"
    /\ next_k > Len(divisors)
    /\ pc' = "returned"
    /\ UNCHANGED <<input_file, smiles_list, max_smiles_length, binary_sequences,
                   binary_file, sequence_length, divisors, next_k, vla_files, error>>

Next == ReadFile \/ Encode \/ WriteBinary \/ FindDivisors \/ TransformStep \/ LoopExit

Spec == Init /\ [][Next]_vars

(***************************************************************************)
(* find_divisors on its own, for every argument up to MaxN.                *)
(***************************************************************************)
InitDivisors ==
    /\ input_file = NoFile
    /\ pc = "call_find_divisors"
    /\ smiles_list = <<>>
    /\ max_smiles_length = 0
    /\ binary_sequences = <<>>
    /\ binary_file = [exists |-> FALSE, lines |-> <<>>]
    /\ sequence_length \in 1..MaxN
    /\ divisors = <<>>
    /\ next_k = 1
    /\ vla_files = [k \in {} |-> <<>>]
    /\ error = "none"

CallFindDivisors ==
    /\ pc = "call_find_divisors"
    /\ divisors' = find_divisors(sequence_length)
    /\ pc' = "find_divisors_returned"
    /\ UNCHANGED <<input_file, smiles_list, max_smiles_length, binary_sequences,
                   binary_file, sequence_length, next_k, vla_files, error>>

SpecDivisors == InitDivisors /\ [][CallFindDivisors]_vars

(***************************************************************************)
(* What the claims speak of.                                               *)
(***************************************************************************)
\* the raw batch: the lines of the input file
Raw == input_file.lines

\* the number of raw strings
N == Len(Raw)

\* the longest raw string's character count, for a non-empty batch
MaxChars == CHOOSE m \in {Len(Raw[i]) : i \in 1..N} : \A i \in 1..N : Len(Raw[i]) <= m

\* L of the specification: 8 x the longest raw string's character count
SpecL == 8 * MaxChars

\* the encoder has produced the encoded batch
Encoded == binary_sequences # <<>>

\* every encoded string has the length of the first
EqualLength ==
    \A i \in 1..Len(binary_sequences) : Len(binary_sequences[i]) = Len(binary_sequences[1])

\* bit idx (1 = most significant) of the 8-bit big-endian expansion of code point c
ExpansionBit(c, idx) == IF (c \div 2^(8 - idx)) % 2 = 1 THEN "1" ELSE "0"

\* the characters p+1 .. p+k of the bit string s, as 0/1
Slice(s, p, k) == [idx \in 1..k |-> IF s[p + idx] = "1" THEN 1 ELSE 0]

\* the big-endian expansion of the int v on k bits (longer when v >= 2^k)
KBits(v, k) == LET b == IntBits(v) IN [i \in 1..(k - Len(b)) |-> 0] \o b

\* the int of a natural below 2^DigitBits
Small(n) == IF n = 0 THEN Zero ELSE <<n>>

\* some raw string has a character whose code point is above 255
HasWideChar == \E i \in 1..N : \E j \in 1..Len(Raw[i]) : Raw[i][j] > 255

\* find_divisors has returned to process_smiles_file
DivisorsFound ==
    \/ pc = "loop"
    \/ pc = "returned" /\ input_file.exists
    \/ pc = "raised" /\ error = "IndexError"

\* C1: for every non-empty raw batch, once encoded, every encoded string has
\* length exactly L = 8 x the longest raw string's character count.
C1_EncodedLengthIsL ==
    Encoded => \A i \in 1..Len(binary_sequences) : Len(binary_sequences[i]) = SpecL

\* C2: the first 8*len(raw_i) characters of encoded[i] are the 8-bit big-endian
\* expansions of raw_i's code points in character order, and every remaining
\* character up to position L is '0'.
C2_ExpansionThenZeros ==
    Encoded =>
        \A i \in 1..N :
            \A p \in 1..SpecL :
                /\ p <= Len(binary_sequences[i])
                /\ binary_sequences[i][p] =
                       IF p <= 8 * Len(Raw[i])
                       THEN ExpansionBit(Raw[i][((p - 1) \div 8) + 1], ((p - 1) % 8) + 1)
                       ELSE "0"

\* C3: for every positive L, find_divisors(L) is strictly ascending (so without
\* duplicates), holds k exactly when 1 <= k <= L and L mod k = 0, and so holds
\* 1 and L.
C3_DivisorsExact ==
    pc = "find_divisors_returned" =>
        LET L == sequence_length
            d == divisors
        IN  /\ \A i \in 1..Len(d) - 1 : d[i] < d[i + 1]
            /\ \A i \in 1..Len(d) : d[i] \in 1..L /\ L % d[i] = 0
            /\ \A k \in 1..L : L % k = 0 => \E i \in 1..Len(d) : d[i] = k
            /\ d # <<>> /\ d[1] = 1 /\ d[Len(d)] = L

\* find_divisors has returned the twelve divisors of 60
C3_Witness ==
    /\ pc = "find_divisors_returned"
    /\ sequence_length = 60
    /\ divisors = <<1, 2, 3, 4, 5, 6, 10, 12, 15, 20, 30, 60>>

\* C4: for an encoded batch of equal-length strings and k dividing L, cell
\* (i, j) of the matrix for k is exactly the unsigned integer whose k-bit
\* big-endian representation is the slice [j*k, (j+1)*k) of encoded string i,
\* so 0 for an all-'0' group; for ["A", "AB"], k = 8 gives [65, 0] and [65, 66].
\* (The claim's figures for k = 16 are C4_Example16.)
C4_CellIsGroupValue ==
    \A k \in DOMAIN vla_files :
        EqualLength =>
            /\ \A i \in 1..Len(vla_files[k]) :
                   \A j \in 1..Len(vla_files[k][i]) :
                       vla_files[k][i][j] =
                           IntFromBits(Slice(binary_sequences[i], (j - 1) * k, k))
            /\ (Raw = <<(<<65>>), <<65, 66>>>> /\ k = 8) =>
                   vla_files[k] = << <<Small(65), Small(0)>>, <<Small(65), Small(66)>> >>

\* C4, its example for k = 16: the batch ["A", "AB"] yields 16705 and 16706.
C4_Example16 ==
    (Raw = <<(<<65>>), <<65, 66>>>> /\ 16 \in DOMAIN vla_files) =>
        vla_files[16] = << <<Small(16705)>>, <<Small(16706)>> >>

\* C5: for every k in the divisor set of L, the matrix for a batch of N encoded
\* strings of length L has N rows and L/k columns, and every cell is a
\* non-negative integer below 2^k.
C5_ShapeAndRange ==
    \A k \in DOMAIN vla_files :
        EqualLength =>
            /\ Len(vla_files[k]) = N
            /\ \A i \in 1..Len(vla_files[k]) :
                   /\ Len(vla_files[k][i]) = Len(binary_sequences[1]) \div k
                   /\ \A j \in 1..Len(vla_files[k][i]) :
                          Len(IntBits(vla_files[k][i][j])) <= k

\* C6: when the raw batch is empty the pipeline fails at the computation of the
\* maximum length (EmptyBatchError; in the code the ValueError of max()), the
\* error leaves process_smiles_file, and neither binary_output.dat nor any
\* matrix is written.
C6_EmptyBatchFails ==
    (input_file.exists /\ Raw = <<>>) =>
        /\ pc \in {"open", "encode", "raised"}
        /\ pc = "raised" => error = "ValueError"
        /\ pc # "raised" => error = "none"
        /\ ~binary_file.exists
        /\ DOMAIN vla_files = {}

\* the empty batch has made max() raise
C6_Witness ==
    /\ input_file.exists
    /\ Raw = <<>>
    /\ pc = "raised"
    /\ error = "ValueError"

\* C7: when a raw string has a character with a code point outside 0..255,
\* encoding fails with an error: no encoded string is produced, nothing is
\* written and no matrix is produced.
C7_WideCharFails ==
    (HasWideChar /\ pc \notin {"open", "encode"}) =>
        /\ error # "none"
        /\ binary_sequences = <<>>
        /\ ~binary_file.exists
        /\ DOMAIN vla_files = {}

\* C8: transform_to_vla returns a matrix only when all encoded strings share
\* one length L and k divides L; otherwise it fails and returns no matrix.
C8_MismatchFails ==
    \A k \in DOMAIN vla_files :
        /\ EqualLength
        /\ Len(binary_sequences[1]) % k = 0

C10_Lossless ==
    \A k \in DOMAIN vla_files :
        EqualLength =>
            \A i \in 1..Len(vla_files[k]) :
                /\ StrJoin([j \in 1..Len(vla_files[k][i]) |-> KBits(vla_files[k][i][j], k)])
                       = Slice(binary_sequences[i], 0, Len(binary_sequences[i]))
                /\ k = 8 =>
                       \A j \in 1..Len(vla_files[k][i]) :
                           vla_files[k][i][j] =
                               IF j <= Len(Raw[i]) THEN Small(Raw[i][j])
                               ELSE Zero

====
